---- MODULE Spec2Model ----
EXTENDS Integers, Sequences, FiniteSets, TLC

(***************************************************************************)
(* Python floats.  A float is modelled as a decimal floating-point number  *)
(* with an eight-digit mantissa: [k |-> "num", m |-> mantissa, e |-> exp]  *)
(* stands for m * 10^e, with 10^7 <= |m| < 10^8, or m = 0 and e = 0.  The  *)
(* exponent range is that of an IEEE double: a result below the smallest   *)
(* positive double, 4.9406564e-324, is flushed to zero.  The other kinds   *)
(* are nan, inf, the values None and str that are no numbers, and the      *)
(* exceptions an operation raises, which every later operation passes on.  *)
(***************************************************************************)
Base == 100000000
Half == 10000
MinExp == -331
MinMant == 49406564

Fl(m, e) == [k |-> "num", m |-> m, e |-> e]
Zero == Fl(0, 0)
NaN == [k |-> "nan", m |-> 0, e |-> 0]
Inf == [k |-> "inf", m |-> 0, e |-> 0]
None == [k |-> "none", m |-> 0, e |-> 0]
Str == [k |-> "str", m |-> 0, e |-> 0]
Raise(kind) == [k |-> kind, m |-> 0, e |-> 0]

IsErr(a) == a.k \in {"ZeroDivisionError", "ValueError", "TypeError", "KeyError", "IndexError"}
Abs(i) == IF i < 0 THEN 0 - i ELSE i
Sgn(i) == IF i < 0 THEN 0 - 1 ELSE IF i = 0 THEN 0 ELSE 1
Pow10 == [d \in 0..9 |-> CASE d = 0 -> 1 [] d = 1 -> 10 [] d = 2 -> 100 [] d = 3 -> 1000
                           [] d = 4 -> 10000 [] d = 5 -> 100000 [] d = 6 -> 1000000
                           [] d = 7 -> 10000000 [] d = 8 -> 100000000 [] d = 9 -> 1000000000]

\* The number of decimal digits of n, 0 < n < 2^31.
RECURSIVE NDigits(_)
NDigits(n) == IF n < 10 THEN 1 ELSE 1 + NDigits(n \div 10)

\* s * q * 10^e for an eight-digit q: zero below the smallest positive float.
Flushed(s, q, e) ==
    IF e < MinExp \/ (e = MinExp /\ q < MinMant) THEN Zero ELSE Fl(s * q, e)

\* The same for a q that rounding may have carried up to 10^8.
Carried(s, q, e) ==
    IF q = Base THEN Flushed(s, Base \div 10, e + 1) ELSE Flushed(s, q, e)

\* s * n * 10^e for an n of d digits, rounded to eight (half away from zero).
Shifted(s, n, e, d) ==
    IF d <= 8 THEN Flushed(s, n * Pow10[8 - d], e - (8 - d))
    ELSE Carried(s,
                 (n \div Pow10[d - 8])
                     + (IF 2 * (n % Pow10[d - 8]) >= Pow10[d - 8] THEN 1 ELSE 0),
                 e + (d - 8))

Round(s, n, e) == IF n = 0 THEN Zero ELSE Shifted(s, n, e, NDigits(n))

FromInt(i) == Round(Sgn(i), Abs(i), 0)

\* An operation on operands that are not both finite: the first operand that
\* is an exception; TypeError for an operand that is no number; else a nan.
Special(a, b) ==
    IF IsErr(a) THEN a
    ELSE IF IsErr(b) THEN b
    ELSE IF a.k \in {"none", "str"} \/ b.k \in {"none", "str"} THEN Raise("TypeError")
    ELSE NaN

FNeg(a) == IF a.k = "num" THEN Fl(0 - a.m, a.e) ELSE Special(a, a)

\* The sum of an integer of at most ten digits, in units of 10^e.
Summed(sum, e) == Round(Sgn(sum), Abs(sum), e)

\* hi + lo for finite operands, hi of the larger exponent: lo is shifted onto
\* hi's exponent, one guard digit kept.
Aligned(hi, lo) ==
    IF hi.e - lo.e > 9 THEN hi
    ELSE Summed(hi.m * 10 + Sgn(lo.m) * ((Abs(lo.m) * 10) \div Pow10[hi.e - lo.e]), hi.e - 1)

AddNum(a, b) ==
    IF a.m = 0 THEN b
    ELSE IF b.m = 0 THEN a
    ELSE IF a.e >= b.e THEN Aligned(a, b)
    ELSE Aligned(b, a)

FAdd(a, b) == IF a.k = "num" /\ b.k = "num" THEN AddNum(a, b) ELSE Special(a, b)

FSub(a, b) == FAdd(a, FNeg(b))

\* The sixteen-digit product of two mantissas, from their four-digit halves:
\* high * 10^8 + low, rounded to eight digits (half away from zero).
MulRounded(s, high, low, e) ==
    IF high >= Base \div 10
    THEN Carried(s, high + (IF 2 * low >= Base THEN 1 ELSE 0), e + 8)
    ELSE Carried(s, high * 10 + (low \div (Base \div 10))
                        + (IF 2 * (low % (Base \div 10)) >= Base \div 10 THEN 1 ELSE 0),
                 e + 7)

MulSplit(s, high, low, e) == MulRounded(s, high + (low \div Base), low % Base, e)

MulParts(s, hh, mid, ll, e) ==
    MulSplit(s, hh + (mid \div Half), (mid % Half) * Half + ll, e)

Product(s, xh, xl, yh, yl, e) == MulParts(s, xh * yh, xh * yl + xl * yh, xl * yl, e)

MulNum(a, b) ==
    IF a.m = 0 \/ b.m = 0 THEN Zero
    ELSE Product(Sgn(a.m) * Sgn(b.m), Abs(a.m) \div Half, Abs(a.m) % Half,
                 Abs(b.m) \div Half, Abs(b.m) % Half, a.e + b.e)

FMul(a, b) == IF a.k = "num" /\ b.k = "num" THEN MulNum(a, b) ELSE Special(a, b)

\* Long division: n more digits of r / b appended to acc, 0 <= r < b.
RECURSIVE DivDigits(_, _, _, _)
DivDigits(r, b, n, acc) ==
    IF n = 0 THEN acc
    ELSE DivDigits((r * 10) % b, b, n - 1, acc * 10 + ((r * 10) \div b))

Quotient(s, x, y, e) == Round(s, DivDigits(x % y, y, 8, x \div y), e)

\* a / b: ZeroDivisionError for a zero divisor.
FDiv(a, b) ==
    IF a.k = "num" /\ b.k = "num"
    THEN IF b.m = 0 THEN Raise("ZeroDivisionError")
         ELSE Quotient(Sgn(a.m) * Sgn(b.m), Abs(a.m), Abs(b.m), a.e - b.e - 8)
    ELSE Special(a, b)

\* a < b, a == b and a <= b: false when either operand is a nan.
LtNum(a, b) ==
    IF Sgn(a.m) # Sgn(b.m) THEN Sgn(a.m) < Sgn(b.m)
    ELSE IF a.m = 0 THEN FALSE
    ELSE IF a.m > 0 THEN a.e < b.e \/ (a.e = b.e /\ a.m < b.m)
    ELSE a.e > b.e \/ (a.e = b.e /\ a.m < b.m)

FLt(a, b) ==
    IF a.k = "num" /\ b.k = "num" THEN LtNum(a, b)
    ELSE a.k = "num" /\ b.k = "inf"

FEq(a, b) == a.k = b.k /\ a.k \in {"num", "inf"} /\ a.m = b.m /\ a.e = b.e

FLe(a, b) == FLt(a, b) \/ FEq(a, b)

\* Python's min(a, b) and max(a, b): the second argument only when it compares
\* strictly below (above) the first, so a nan second argument is dropped.
PyMin(a, b) == IF IsErr(a) \/ IsErr(b) THEN Special(a, b) ELSE IF FLt(b, a) THEN b ELSE a
PyMax(a, b) == IF IsErr(a) \/ IsErr(b) THEN Special(a, b) ELSE IF FLt(a, b) THEN b ELSE a

(***************************************************************************)
(* The math module.  Each function is computed to about eight digits, as   *)
(* the C library computes it to sixteen: argument reduction by a two-part  *)
(* pi/2, then a polynomial on the reduced argument.                        *)
(***************************************************************************)
One == Fl(10000000, -7)
Two == Fl(20000000, -7)
PiOver180 == Fl(17453293, -9)
TwoOverPi == Fl(63661977, -8)
PiHalf == Fl(15707963, -7)
PiHalfHi == Fl(15707000, -7)
PiHalfLo == Fl(96326795, -12)

\* math.radians(x)
Radians(x) == FMul(x, PiOver180)

\* x ** 2
Squared(x) == FMul(x, x)

\* The largest integer whose square is at most n: Newton's iteration from x.
RECURSIVE ISqrt(_, _)
RECURSIVE ISqrtStep(_, _, _)
ISqrtStep(n, x, y) == IF y >= x THEN x ELSE ISqrt(n, y)
ISqrt(n, x) == ISqrtStep(n, x, (x + n \div x) \div 2)

\* math.sqrt(a): ValueError below zero; otherwise a four-digit root of the
\* mantissa, sharpened by two Newton steps.
SqrtGuess(a) ==
    IF a.e % 2 # 0 THEN Round(1, ISqrt(a.m \div 10, a.m \div 10), (a.e + 1) \div 2)
    ELSE Round(1, ISqrt(a.m \div 100, a.m \div 100), (a.e + 2) \div 2)

Newton(a, x) == FMul(FAdd(x, FDiv(a, x)), Fl(50000000, -8))

Sqrt(a) ==
    IF a.k = "num"
    THEN IF a.m < 0 THEN Raise("ValueError")
         ELSE IF a.m = 0 THEN Zero
         ELSE Newton(a, Newton(a, SqrtGuess(a)))
    ELSE Special(a, a)

\* The integer nearest to a finite a of small magnitude.
Nearest(a) ==
    IF a.e >= 0 THEN a.m * Pow10[a.e]
    ELSE IF a.e < 0 - 8 THEN 0
    ELSE Sgn(a.m) * ((2 * Abs(a.m) + Pow10[0 - a.e]) \div (2 * Pow10[0 - a.e]))

\* sin and cos on the reduced argument r, |r| <= pi/4, with z = r * r.
SinSeries(r, z) ==
    FAdd(r, FMul(r, FMul(z,
        FAdd(Fl(-16666667, -8), FMul(z,
        FAdd(Fl(83333333, -10), FMul(z,
        FAdd(Fl(-19841270, -11), FMul(z,
        FAdd(Fl(27557319, -13), FMul(z, Fl(-25052108, -15))))))))))))

CosSeries(z) ==
    FAdd(One, FMul(z,
        FAdd(Fl(-50000000, -8), FMul(z,
        FAdd(Fl(41666667, -9), FMul(z,
        FAdd(Fl(-13888889, -10), FMul(z,
        FAdd(Fl(24801587, -12), FMul(z,
        FAdd(Fl(-27557319, -14), FMul(z, Fl(20876757, -16)))))))))))))

\* x = k * pi/2 + r: the quadrant k and the reduced argument r.
Quadrant(x) == Nearest(FMul(x, TwoOverPi))
ReducedBy(x, k) == FSub(FSub(x, FMul(k, PiHalfHi)), FMul(k, PiHalfLo))
Reduced(x) == ReducedBy(x, FromInt(Quadrant(x)))

SinAt(q, r) ==
    CASE q = 0 -> SinSeries(r, FMul(r, r))
      [] q = 1 -> CosSeries(FMul(r, r))
      [] q = 2 -> FNeg(SinSeries(r, FMul(r, r)))
      [] q = 3 -> FNeg(CosSeries(FMul(r, r)))

CosAt(q, r) ==
    CASE q = 0 -> CosSeries(FMul(r, r))
      [] q = 1 -> FNeg(SinSeries(r, FMul(r, r)))
      [] q = 2 -> FNeg(CosSeries(FMul(r, r)))
      [] q = 3 -> SinSeries(r, FMul(r, r))

\* math.sin(x) and math.cos(x)
Sin(x) == IF x.k # "num" THEN Special(x, x) ELSE SinAt(Quadrant(x) % 4, Reduced(x))
Cos(x) == IF x.k # "num" THEN Special(x, x) ELSE CosAt(Quadrant(x) % 4, Reduced(x))

\* atan(z) for 0 <= z <= 1: two halvings of the angle, then the series.
HalfAngle(z) == FDiv(z, FAdd(One, Sqrt(FAdd(One, FMul(z, z)))))
AtanSeries(w, z) ==
    FAdd(w, FMul(w, FMul(z,
        FAdd(Fl(-33333333, -8), FMul(z,
        FAdd(Fl(20000000, -8), FMul(z,
        FAdd(Fl(-14285714, -8), FMul(z,
        FAdd(Fl(11111111, -8), FMul(z, Fl(-90909091, -9))))))))))))
AtanPoly(w) == AtanSeries(w, FMul(w, w))
AtanUnit(z) == FMul(Fl(40000000, -7), AtanPoly(HalfAngle(HalfAngle(z))))

\* math.atan2(y, x) for y >= 0 and x >= 0, the quadrant of two square roots.
Atan2(y, x) ==
    IF y.k # "num" \/ x.k # "num" THEN Special(y, x)
    ELSE IF y.m = 0 THEN Zero
    ELSE IF x.m = 0 THEN PiHalf
    ELSE IF FLe(y, x) THEN AtanUnit(FDiv(y, x))
    ELSE FSub(PiHalf, AtanUnit(FDiv(x, y)))

(***************************************************************************)
(* The distance kernel and the segment projection.                         *)
(***************************************************************************)
R == 6371000
lat_scale == 111000

\* haversine_distance: a and c of its variables phi1, phi2, delta_phi and
\* delta_lambda.
haversine_a(phi1, phi2, delta_phi, delta_lambda) ==
    FAdd(Squared(Sin(FDiv(delta_phi, Two))),
         FMul(FMul(Cos(phi1), Cos(phi2)), Squared(Sin(FDiv(delta_lambda, Two)))))

haversine_c(a) == FMul(Two, Atan2(Sqrt(a), Sqrt(FSub(One, a))))

haversine_distance(lat1, lon1, lat2, lon2) ==
    FMul(FromInt(R),
         haversine_c(haversine_a(Radians(lat1), Radians(lat2),
                                 Radians(FSub(lat2, lat1)), Radians(FSub(lon2, lon1)))))

\* point_to_line_distance: its variables lon_scale, dx, dy and t.
lon_scale(py) == FMul(FromInt(111000), Cos(Radians(py)))
seg_dx(py, x1, x2) == FMul(FSub(x2, x1), lon_scale(py))
seg_dy(y1, y2) == FMul(FSub(y2, y1), FromInt(lat_scale))
divisor(dx, dy) == FAdd(FMul(dx, dx), FMul(dy, dy))

clamped_t(px, py, x1, y1, dx, dy) ==
    PyMax(Zero, PyMin(One,
        FDiv(FAdd(FMul(FMul(FSub(px, x1), lon_scale(py)), dx),
                  FMul(FMul(FSub(py, y1), FromInt(lat_scale)), dy)),
             divisor(dx, dy))))

projection_t(px, py, x1, y1, x2, y2) ==
    clamped_t(px, py, x1, y1, seg_dx(py, x1, x2), seg_dy(y1, y2))

\* The distance to the closest point x1 + t * (x2 - x1), y1 + t * (y2 - y1).
closest_distance(px, py, x1, y1, x2, y2, t) ==
    haversine_distance(py, px, FAdd(y1, FMul(t, FSub(y2, y1))), FAdd(x1, FMul(t, FSub(x2, x1))))

\* The function from the test of line_length on.
from_line_length(px, py, x1, y1, x2, y2, line_length) ==
    IF IsErr(line_length) THEN line_length
    ELSE IF FEq(line_length, Zero) THEN haversine_distance(py, px, y1, x1)
    ELSE closest_distance(px, py, x1, y1, x2, y2, projection_t(px, py, x1, y1, x2, y2))

point_to_line_distance(px, py, x1, y1, x2, y2) ==
    from_line_length(px, py, x1, y1, x2, y2, haversine_distance(y1, x1, y2, x2))

(***************************************************************************)
(* The two bulk filters.                                                   *)
(***************************************************************************)
\* What a call comes to: a returned value, or the exception it raised.
Returns(v) == [exc |-> "", val |-> v]
Raises(kind) == [exc |-> kind, val |-> FALSE]

\* pd.isna(v)
IsNA(v) == v.k \in {"nan", "none"}

\* The result of comparing a computed distance d with a bound: the exception
\* that computing d raised, or the comparison's truth.
Compared(d, holds) == IF IsErr(d) THEN Raises(d.k) ELSE Returns(holds)

\* A faulty df[mask] that returns the kept rows last first; C5_Subsequence
\* tells it from Selected.
RECURSIVE SelectedLastFirst(_, _, _)
SelectedLastFirst(df, mask, i) ==
    IF i > Len(df) THEN <<>>
    ELSE IF mask[i].val THEN SelectedLastFirst(df, mask, i + 1) \o <<df[i]>>
    ELSE SelectedLastFirst(df, mask, i + 1)

\* df[mask]: the rows whose mask is true, in order, from row i on.
RECURSIVE Selected(_, _, _)
Selected(df, mask, i) ==
    IF i > Len(df) THEN <<>>
    ELSE IF mask[i].val THEN <<df[i]>> \o Selected(df, mask, i + 1)
    ELSE Selected(df, mask, i + 1)

\* df[df.apply(pred, axis = 1)]: the first exception a row's predicate raises
\* ends the call.
Filtered(df, mask) ==
    IF \E i \in DOMAIN df : mask[i].exc # ""
    THEN Raises(mask[CHOOSE i \in DOMAIN df :
                        /\ mask[i].exc # ""
                        /\ \A j \in 1..(i - 1) : mask[j].exc = ""].exc)
    ELSE Returns(Selected(df, mask, 1))

\* A faulty comparison of filter_by_point, < for <=; C7_PointInclusive tells it
\* from point_within.
point_within_strict(d, distance_m) == Compared(d, FLt(d, distance_m))

\* haversine_distance(...) <= distance_m of filter_by_point
point_within(d, distance_m) == Compared(d, FLe(d, distance_m))

\* filter_by_point's is_within_distance(row)
is_within_distance(row, lat, lng, distance_m) ==
    IF IsNA(row.LAT) \/ IsNA(row.LON) THEN Returns(FALSE)
    ELSE point_within(haversine_distance(lat, lng, row.LAT, row.LON), distance_m)

filter_by_point(df, lat, lng, distance_m) ==
    Filtered(df, [i \in DOMAIN df |-> is_within_distance(df[i], lat, lng, distance_m)])

\* filter_by_linestring: dist for the segment p1, p2
segment_dist(row, p1, p2) ==
    point_to_line_distance(row.LON, row.LAT, p1.lng, p1.lat, p2.lng, p2.lat)

\* The loop of filter_by_linestring over the segments of points, from segment
\* i on, min_dist being the least distance so far.
RECURSIVE min_dist_from(_, _, _, _)
min_dist_from(row, points, i, min_dist) ==
    IF i > Len(points) - 1 THEN min_dist
    ELSE min_dist_from(row, points, i + 1,
                       PyMin(min_dist, segment_dist(row, points[i], points[i + 1])))

\* A faulty comparison of filter_by_linestring, < for <=; C1_PathBoundary tells
\* it from linestring_within.
linestring_within_strict(min_dist, distance_m) == Compared(min_dist, FLt(min_dist, distance_m))

\* min_dist <= distance_m of filter_by_linestring
linestring_within(min_dist, distance_m) == Compared(min_dist, FLe(min_dist, distance_m))

\* filter_by_linestring's is_within_distance(row)
is_within_linestring(row, points, distance_m) ==
    IF IsNA(row.LAT) \/ IsNA(row.LON) THEN Returns(FALSE)
    ELSE linestring_within(min_dist_from(row, points, 1, Inf), distance_m)

filter_by_linestring(df, points, distance_m) ==
    Filtered(df, [i \in DOMAIN df |-> is_within_linestring(df[i], points, distance_m)])

(***************************************************************************)
(* Text and JSON.  A text is the sequence of its tokens: the punctuation   *)
(* marks, the two quote characters, words, and numerals.                   *)
(***************************************************************************)
\* str.replace(old, new) of one character by another
Replace(text, old, new) == [i \in DOMAIN text |-> IF text[i] = old THEN new ELSE text[i]]

\* The numerals of the texts, and the float each one reads as.
Numeral ==
    ("34.05" :> Fl(34050000, -6)) @@ ("34.0509" :> Fl(34050900, -6)) @@
    ("-118.249" :> Fl(-11824900, -5)) @@ ("-118.248" :> Fl(-11824800, -5)) @@
    ("0" :> Zero) @@ ("0.0005" :> Fl(50000000, -11)) @@ ("0.001" :> Fl(10000000, -10)) @@
    ("5" :> Fl(50000000, -7))

Q == "\""
Marks == {"[", "]", "{", "}", ":", ",", "'", Q}

\* A decoded JSON value.
JNumber(v) == [type |-> "number", num |-> v, str |-> "", items |-> <<>>, keys |-> <<>>]
JString(w) == [type |-> "str", num |-> Str, str |-> w, items |-> <<>>, keys |-> <<>>]
JList(vs) == [type |-> "list", num |-> Str, str |-> "", items |-> vs, keys |-> <<>>]
JDict(ks, vs) == [type |-> "dict", num |-> Str, str |-> "", items |-> vs, keys |-> ks]

Parsed(v, next) == [ok |-> TRUE, val |-> v, next |-> next]
NoParse == [ok |-> FALSE, val |-> JString(""), next |-> 0]
At(text, i) == IF i \in DOMAIN text THEN text[i] ELSE ""
IsQuoted(text, i) ==
    At(text, i) = Q /\ At(text, i + 1) \notin Marks \cup {""} /\ At(text, i + 2) = Q

\* The JSON value that starts at token i, and the token after it.
RECURSIVE ParseValue(_, _)
RECURSIVE ParseItems(_, _, _)
RECURSIVE ItemParsed(_, _, _)
RECURSIVE ParseMembers(_, _, _, _)
RECURSIVE MemberParsed(_, _, _, _, _)
ParseValue(text, i) ==
    CASE At(text, i) \in DOMAIN Numeral -> Parsed(JNumber(Numeral[At(text, i)]), i + 1)
      [] IsQuoted(text, i) -> Parsed(JString(At(text, i + 1)), i + 3)
      [] At(text, i) = "[" ->
            IF At(text, i + 1) = "]" THEN Parsed(JList(<<>>), i + 2)
            ELSE ParseItems(text, i + 1, <<>>)
      [] At(text, i) = "{" ->
            IF At(text, i + 1) = "}" THEN Parsed(JDict(<<>>, <<>>), i + 2)
            ELSE ParseMembers(text, i + 1, <<>>, <<>>)
      [] OTHER -> NoParse

\* The items of a list from token i on; v is the item just parsed.
ItemParsed(text, v, acc) ==
    IF ~v.ok THEN NoParse
    ELSE IF At(text, v.next) = "," THEN ParseItems(text, v.next + 1, Append(acc, v.val))
    ELSE IF At(text, v.next) = "]" THEN Parsed(JList(Append(acc, v.val)), v.next + 1)
    ELSE NoParse

ParseItems(text, i, acc) == ItemParsed(text, ParseValue(text, i), acc)

\* The members of a dict from token i on; v is the value just parsed of key.
MemberParsed(text, key, v, ks, vs) ==
    IF ~v.ok THEN NoParse
    ELSE IF At(text, v.next) = ","
    THEN ParseMembers(text, v.next + 1, Append(ks, key), Append(vs, v.val))
    ELSE IF At(text, v.next) = "}"
    THEN Parsed(JDict(Append(ks, key), Append(vs, v.val)), v.next + 1)
    ELSE NoParse

ParseMembers(text, i, ks, vs) ==
    IF ~(IsQuoted(text, i) /\ At(text, i + 3) = ":") THEN NoParse
    ELSE MemberParsed(text, At(text, i + 1), ParseValue(text, i + 4), ks, vs)

\* json.loads(text)
Decoded(text, v) ==
    IF v.ok /\ v.next = Len(text) + 1 THEN Returns(v.val) ELSE Raises("JSONDecodeError")

JsonLoads(text) == Decoded(text, ParseValue(text, 1))

\* 'key' in d, for a dict d
HasKey(d, key) == \E i \in DOMAIN d.keys : d.keys[i] = key
\* d[key]: the value of the last member named key
Member(d, key) ==
    d.items[CHOOSE i \in DOMAIN d.keys :
                d.keys[i] = key /\ \A j \in DOMAIN d.keys : d.keys[j] = key => j <= i]
\* d.get(key) of a decoded value, as a word: "" when there is none
GetWord(d, key) ==
    IF HasKey(d, key) /\ Member(d, key).type = "str" THEN Member(d, key).str ELSE ""

\* len(s): TypeError for a number.  A word has at least one character, and
\* whatever its length the subscripts s[i]['lat'] raise TypeError on it.
LenOf(s) ==
    CASE s.type = "number" -> Raises("TypeError")
      [] s.type = "str" -> Returns(1)
      [] OTHER -> Returns(Len(s.items))

\* p[key] for a decoded value p: the float it holds, or the exception.
Subscript(p, key) ==
    CASE p.type = "dict" -> IF HasKey(p, key) THEN Member(p, key).num ELSE Raise("KeyError")
      [] OTHER -> Raise("TypeError")

\* s[i][key] for a decoded value s, i counted from 0.
Coordinate(s, i, key) ==
    CASE s.type = "list" ->
            IF i + 1 \notin DOMAIN s.items THEN Raise("IndexError")
            ELSE Subscript(s.items[i + 1], key)
      [] s.type = "dict" -> Raise("KeyError")
      [] OTHER -> Raise("TypeError")

(***************************************************************************)
(* checkZones.                                                             *)
(***************************************************************************)
\* The first exception among the floats of a sequence, "" when there is none.
FirstExc(vs) ==
    IF \E i \in DOMAIN vs : IsErr(vs[i])
    THEN vs[CHOOSE i \in DOMAIN vs : IsErr(vs[i]) /\ \A j \in 1..(i - 1) : ~IsErr(vs[j])].k
    ELSE ""

\* flag or <comparison>: the comparison is evaluated only when flag is false.
OrElse(flag, compared) == IF flag THEN Returns(TRUE) ELSE compared

\* haversine_distance(x, y, lat, lon) <= 100 of checkZones
zone_point_within(d) == Compared(d, FLe(d, FromInt(100)))

\* point_to_line_distance(...) < 100 of checkZones
zone_segment_within(d) == Compared(d, FLt(d, FromInt(100)))

\* checkZones: the distance of row to the segment x1, y1, x2, y2 of a zone
zone_segment_dist(row, x1, y1, x2, y2) ==
    point_to_line_distance(row.LAT, row.LON, x1, y1, x2, y2)

\* checkZones: the distance of row to the segment i - 1, i of the zone s
zone_dist_at(row, s, i) ==
    zone_segment_dist(row, Coordinate(s, i - 1, "lat"), Coordinate(s, i - 1, "lng"),
                      Coordinate(s, i, "lat"), Coordinate(s, i, "lng"))

\* checkZones: the loop over the segments i - 1, i of the zone s, from i on.
RECURSIVE segments_from(_, _, _, _, _)
RECURSIVE segment_read(_, _, _, _, _, _)
RECURSIVE segment_flagged(_, _, _, _, _)
segments_from(row, s, n, i, flag) ==
    IF i > n - 1 THEN Returns(flag)
    ELSE segment_read(row, s, n, i, flag,
                      FirstExc(<<Coordinate(s, i - 1, "lat"), Coordinate(s, i - 1, "lng"),
                                 Coordinate(s, i, "lat"), Coordinate(s, i, "lng")>>))

segment_read(row, s, n, i, flag, exc) ==
    IF exc # "" THEN Raises(exc)
    ELSE segment_flagged(row, s, n, i,
                         OrElse(flag, zone_segment_within(zone_dist_at(row, s, i))))

segment_flagged(row, s, n, i, next) ==
    IF next.exc # "" THEN next ELSE segments_from(row, s, n, i + 1, next.val)

\* checkZones: the branch len(s) == 1
zone_point(row, s, flag, exc) ==
    IF exc # "" THEN Raises(exc)
    ELSE OrElse(flag, zone_point_within(
             haversine_distance(Coordinate(s, 0, "lat"), Coordinate(s, 0, "lng"),
                                row.LAT, row.LON)))

\* checkZones: the body of the loop for the decoded zone s of length n
zone_branch(row, s, n, flag) ==
    IF n.exc # "" THEN n
    ELSE IF n.val = 1
    THEN zone_point(row, s, flag,
                    FirstExc(<<Coordinate(s, 0, "lat"), Coordinate(s, 0, "lng")>>))
    ELSE segments_from(row, s, n.val, 1, flag)

zone_loaded(row, loaded, flag) ==
    IF loaded.exc # "" THEN loaded ELSE zone_branch(row, loaded.val, LenOf(loaded.val), flag)

\* json.loads(z.replace("'", '"')): an empty cell is a nan, which has no replace
LoadZone(z) == IF z = <<>> THEN Raises("AttributeError") ELSE JsonLoads(Replace(z, "'", Q))

\* checkZones: the body of the loop for one zone text z
check_zone(row, z, flag) == zone_loaded(row, LoadZone(z), flag)

RECURSIVE zones_from(_, _, _, _)
RECURSIVE zone_checked(_, _, _, _)
zones_from(row, zones, k, flag) ==
    IF k > Len(zones) THEN Returns(flag)
    ELSE zone_checked(row, zones, k, check_zone(row, zones[k], flag))

zone_checked(row, zones, k, next) ==
    IF next.exc # "" THEN next ELSE zones_from(row, zones, k + 1, next.val)

checkZones(row, zones) == zones_from(row, zones, 1, FALSE)

(***************************************************************************)
(* The roster and the request handlers.                                    *)
(***************************************************************************)
members == <<
    [Name |-> "Bob Blumenfield", CD |-> "3"],
    [Name |-> "Mike Bonin", CD |-> "11"],
    [Name |-> "Joe Buscaino", CD |-> "15"],
    [Name |-> "Gilbert A. Cedillo", CD |-> "1"],
    [Name |-> "Kevin DeLeon", CD |-> "14"],
    [Name |-> "Marqueece Harris-Dawson", CD |-> "8"],
    [Name |-> "Paul Koretz", CD |-> "5"],
    [Name |-> "Paul Krekorian", CD |-> "2"],
    [Name |-> "John Lee", CD |-> "12"],
    [Name |-> "Nury Martinez", CD |-> "6"],
    [Name |-> "Mitch O'Farrell", CD |-> "13"],
    [Name |-> "Curren D. Price", CD |-> "9"],
    [Name |-> "Nithya Raman", CD |-> "4"],
    [Name |-> "Mark Ridley-Thomas", CD |-> "10"],
    [Name |-> "Monica Rodriguez", CD |-> "7"],
    [Name |-> "Herb Wesson", CD |-> "10"],
    [Name |-> "Heather Hutt", CD |-> "10"],
    [Name |-> "Eunisses Hernandez", CD |-> "1"],
    [Name |-> "Tim McOsker", CD |-> "15"],
    [Name |-> "Traci Park", CD |-> "11"],
    [Name |-> "Hugo Soto-Martinez", CD |-> "13"],
    [Name |-> "Katy Yaroslavsky", CD |-> "5"],
    [Name |-> "Imelda Padilla", CD |-> "6"],
    [Name |-> "Ysabel Jurado", CD |-> "14"],
    [Name |-> "Adrin Nazarian", CD |-> "2"] >>

\* str.upper() of the members' names
Upper ==
    ("Bob Blumenfield" :> "BOB BLUMENFIELD") @@
    ("Mike Bonin" :> "MIKE BONIN") @@
    ("Joe Buscaino" :> "JOE BUSCAINO") @@
    ("Gilbert A. Cedillo" :> "GILBERT A. CEDILLO") @@
    ("Kevin DeLeon" :> "KEVIN DELEON") @@
    ("Marqueece Harris-Dawson" :> "MARQUEECE HARRIS-DAWSON") @@
    ("Paul Koretz" :> "PAUL KORETZ") @@
    ("Paul Krekorian" :> "PAUL KREKORIAN") @@
    ("John Lee" :> "JOHN LEE") @@
    ("Nury Martinez" :> "NURY MARTINEZ") @@
    ("Mitch O'Farrell" :> "MITCH O'FARRELL") @@
    ("Curren D. Price" :> "CURREN D. PRICE") @@
    ("Nithya Raman" :> "NITHYA RAMAN") @@
    ("Mark Ridley-Thomas" :> "MARK RIDLEY-THOMAS") @@
    ("Monica Rodriguez" :> "MONICA RODRIGUEZ") @@
    ("Herb Wesson" :> "HERB WESSON") @@
    ("Heather Hutt" :> "HEATHER HUTT") @@
    ("Eunisses Hernandez" :> "EUNISSES HERNANDEZ") @@
    ("Tim McOsker" :> "TIM MCOSKER") @@
    ("Traci Park" :> "TRACI PARK") @@
    ("Hugo Soto-Martinez" :> "HUGO SOTO-MARTINEZ") @@
    ("Katy Yaroslavsky" :> "KATY YAROSLAVSKY") @@
    ("Imelda Padilla" :> "IMELDA PADILLA") @@
    ("Ysabel Jurado" :> "YSABEL JURADO") @@
    ("Adrin Nazarian" :> "ADRIN NAZARIAN")

\* round(x, 1)
Tenths(x) == IF IsErr(x) THEN x ELSE FDiv(FromInt(Nearest(FMul(x, FromInt(10)))), FromInt(10))

distance_m == 100

\* A response: its status, the rows or the error or the page it carries, and
\* which of the two filters the handler called ("" for neither).
RowsResponse(rows, via) ==
    [status |-> 200, rows |-> rows, error |-> "", page |-> <<>>, via |-> via]
ErrorResponse(status, error, via) ==
    [status |-> status, rows |-> <<>>, error |-> error, page |-> <<>>, via |-> via]
PageResponse(page) ==
    [status |-> 200, rows |-> <<>>, error |-> "", page |-> <<page>>, via |-> ""]

\* df.where(pd.notnull(df), None): every nan becomes None
NotNull(v) == IF IsNA(v) THEN None ELSE v
Normalised(df) ==
    [i \in DOMAIN df |-> [df[i] EXCEPT !.LAT = NotNull(@), !.LON = NotNull(@)]]

\* The points of a decoded geo list, as the filters subscript them
PointsOf(geo) ==
    [i \in DOMAIN geo.items |->
        [lat |-> Member(geo.items[i], "lat").num, lng |-> Member(geo.items[i], "lng").num]]

\* get_arrests: the response made of what a filter came to
jsonify_filtered(filtered_df, via) ==
    IF filtered_df.exc # "" THEN ErrorResponse(500, filtered_df.exc, via)
    ELSE RowsResponse(filtered_df.val, via)

\* A faulty choice of the filter, the first point whatever the number of
\* points; C6_OneOutcome tells it from filter_by_geo.
filter_by_first_point(df, geo) ==
    jsonify_filtered(filter_by_point(df, geo[1].lat, geo[1].lng, FromInt(distance_m)),
                     "filter_by_point")

\* get_arrests: the filter chosen by the number of points
filter_by_geo(df, geo) ==
    IF Len(geo) = 1
    THEN jsonify_filtered(filter_by_point(df, geo[1].lat, geo[1].lng, FromInt(distance_m)),
                          "filter_by_point")
    ELSE jsonify_filtered(filter_by_linestring(df, geo, FromInt(distance_m)),
                          "filter_by_linestring")

\* get_arrests: the checks of the decoded geo parameter
validated_geo(df, geo) ==
    IF geo.type # "list" \/ Len(geo.items) = 0
    THEN ErrorResponse(400, "geo parameter must be a non-empty list", "")
    ELSE IF \E i \in DOMAIN geo.items :
                \/ geo.items[i].type # "dict"
                \/ ~HasKey(geo.items[i], "lat")
                \/ ~HasKey(geo.items[i], "lng")
    THEN ErrorResponse(400, "Each geo point must be a dict with \"lat\" and \"lng\" keys", "")
    ELSE filter_by_geo(df, PointsOf(geo))

parsed_geo(df, loaded) ==
    IF loaded.exc # ""
    THEN ErrorResponse(400, "Invalid geo parameter format. Expected JSON list of dicts.", "")
    ELSE validated_geo(df, loaded.val)

\* get_arrests once the csv file is read
arrests_of(df, geo_param) ==
    IF ~geo_param.given THEN RowsResponse(df, "")
    ELSE parsed_geo(df, JsonLoads(geo_param.text))

\* get_arrests, for the geo parameter of the query string (absent, or its
\* text), the csv file being found or not, and rows being its rows.
get_arrests(geo_param, found, rows) ==
    IF ~found THEN ErrorResponse(404, "CSV file not found", "")
    ELSE arrests_of(Normalised(rows), geo_param)

\* json.loads(votes_str): an empty cell is a nan, which is no text
LoadVotes(votes_str) == IF votes_str = <<>> THEN Raises("TypeError") ELSE JsonLoads(votes_str)

\* councilmember: what one row adds to yes_count or no_count; nothing when
\* anything in the try block raises.
CountVotes(loaded, name, vote) ==
    IF loaded.exc # "" THEN 0
    ELSE IF loaded.val.type = "dict" /\ Len(loaded.val.items) = 0 THEN 0
    ELSE IF loaded.val.type # "list" THEN 0
    ELSE IF \E i \in DOMAIN loaded.val.items : loaded.val.items[i].type # "dict" THEN 0
    ELSE Cardinality({i \in DOMAIN loaded.val.items :
                        /\ GetWord(loaded.val.items[i], "Member Name") = name
                        /\ GetWord(loaded.val.items[i], "Vote") = vote})

VotesCast(votes_str, name, vote) == CountVotes(LoadVotes(votes_str), name, vote)

RECURSIVE Sum(_, _)
Sum(f, i) == IF i = 0 THEN 0 ELSE f[i] + Sum(f, i - 1)

\* yes_count and no_count after the loop over df_zones['Votes']
vote_count(df_zones, name, vote) ==
    Sum([i \in DOMAIN df_zones |-> VotesCast(df_zones[i].Votes, name, vote)], Len(df_zones))

\* The rows of a table that a boolean mask selects, in order: df[df[col] == v]
Where(table, mask) ==
    Selected(table, [i \in DOMAIN table |-> Returns(mask[i])], 1)

\* list(df_mover['geojson'])
geojson_of(df_mover) == [k \in DOMAIN df_mover |-> df_mover[k].geojson]

\* [json.loads(z.replace("'", '"')) for z in zones]
AllLoaded(zones, loaded) ==
    IF \E k \in DOMAIN zones : loaded[k].exc # ""
    THEN Raises(loaded[CHOOSE k \in DOMAIN zones :
                          /\ loaded[k].exc # ""
                          /\ \A j \in 1..(k - 1) : loaded[j].exc = ""].exc)
    ELSE Returns([k \in DOMAIN zones |-> loaded[k].val])

LoadedZones(zones) == AllLoaded(zones, [k \in DOMAIN zones |-> LoadZone(zones[k])])

\* round(yes_count / (yes_count + no_count) * 100, 1)
yes_percent(yes_count, no_count) ==
    Tenths(FMul(FDiv(FromInt(yes_count), FromInt(yes_count + no_count)), FromInt(100)))

\* councilmember: the page, or the exception that left the handler, which is
\* Flask's response 500.
render_people(cdata, df_zones, name, df_mover, df_arrests, zones, yes) ==
    IF df_arrests.exc # "" THEN ErrorResponse(500, df_arrests.exc, "")
    ELSE IF zones.exc # "" THEN ErrorResponse(500, zones.exc, "")
    ELSE IF IsErr(yes) THEN ErrorResponse(500, yes.k, "")
    ELSE PageResponse([yes |-> yes, mover |-> Len(df_mover),
                       second |-> Len(Where(df_zones, [i \in DOMAIN df_zones |-> df_zones[i].Second = name])),
                       arrests |-> Len(df_arrests.val), cdata |-> cdata,
                       zones |-> zones.val])

\* df_4118[df_4118.apply(checkZones, axis = 1, zones = zones)]
zone_arrests(df_4118, zones) ==
    Filtered(df_4118, [i \in DOMAIN df_4118 |-> checkZones(df_4118[i], zones)])

people_of(cdata, df_zones, df_4118, name, df_mover) ==
    render_people(cdata, df_zones, name, df_mover,
                  zone_arrests(df_4118, geojson_of(df_mover)),
                  LoadedZones(geojson_of(df_mover)),
                  yes_percent(vote_count(df_zones, name, "YES"),
                              vote_count(df_zones, name, "NO")))

found_member(e, name, found, df_zones, df_4118) ==
    IF Len(e) = 0 THEN ErrorResponse(200, "No such councilperson in record.", "")
    ELSE IF ~found THEN ErrorResponse(500, "FileNotFoundError", "")
    ELSE people_of(e[1], df_zones, df_4118, name, Where(df_zones, [i \in DOMAIN df_zones |-> df_zones[i].Mover = name]))

\* councilmember, for the name of the URL, the csv files being found or not,
\* and df_zones and df_4118 being their rows.
councilmember(name, found, df_zones, df_4118) ==
    found_member(Where(members, [i \in DOMAIN members |-> Upper[members[i].Name] = name]), name, found, df_zones, df_4118)

(***************************************************************************)
(* The files under ./static, the requests, and the arguments of the calls. *)
(***************************************************************************)
MaxRecords == 3
MaxZones == 2
MaxPoints == 3

Row(idx, lat, lon) == [idx |-> idx, LAT |-> lat, LON |-> lon]

\* The consecutive runs of at most n rows of a table.
Windows(all, n) ==
    {SubSeq(all, w[1], w[2]) :
        w \in {v \in (1..Len(all)) \X (0..Len(all)) : v[2] - v[1] + 1 \in 0..n}}

\* The rows of 202024arrests4118.csv as read_csv reads them: an empty cell is
\* a nan, a cell that is no numeral is its text.  Row 2 lies on the point
\* (34.05, -118.249), row 1 about 92 m west of it and row 4 about 100.08 m
\* north of it.
AllRows == <<
    Row(1, Fl(34050000, -6), Fl(-11825000, -5)),
    Row(2, Fl(34050000, -6), Fl(-11824900, -5)),
    Row(3, NaN, Fl(-11824900, -5)),
    Row(4, Fl(34050900, -6), Fl(-11824900, -5)),
    Row(5, Fl(34050000, -6), NaN),
    Row(6, Str, Fl(-11824900, -5)) >>
Datasets == Windows(AllRows, MaxRecords)

\* Rows at the equator: row 7 lies 100 m north of the point (0, 0.0005) and
\* row 8 has the coordinates of row 7 exchanged.
EquatorRows == <<
    Row(7, Fl(89932157, -11), Fl(50000000, -11)),
    Row(8, Fl(50000000, -11), Fl(89932157, -11)) >>
CoreDatasets == Windows(AllRows \o EquatorRows, MaxRecords)

\* The texts of points and of lists of points, with the quote character q.
PointText(q, lat, lng) ==
    <<"{", q, "lat", q, ":", lat, ",", q, "lng", q, ":", lng, "}">>
RECURSIVE Joined(_)
Joined(texts) ==
    IF Len(texts) = 0 THEN <<>>
    ELSE IF Len(texts) = 1 THEN texts[1]
    ELSE texts[1] \o <<",">> \o Joined(Tail(texts))
ListText(texts) == <<"[">> \o Joined(texts) \o <<"]">>
GeoText(q, ps) == ListText([i \in DOMAIN ps |-> PointText(q, ps[i][1], ps[i][2])])

\* The points that requests and zones name, as numerals.
P0 == <<"34.05", "-118.249">>
P1 == <<"34.05", "-118.248">>
E0 == <<"0", "0.0005">>
EW == <<<<"0", "0">>, <<"0", "0.001">>>>
NS == <<<<"0", "0">>, <<"0.001", "0">>>>

\* The values of the geo parameter: absent; the lists of at most MaxPoints
\* points; and texts that are no list of points.  Beside its text a value
\* carries how it was made: the number of its points, -1 for no list of points.
NoGeo == [given |-> FALSE, text |-> <<>>, count |-> 0]
Geo(text, count) == [given |-> TRUE, text |-> text, count |-> count]
GeoLists ==
    {ps \in {<<>>, <<P0>>, <<P1>>, <<P0, P1>>, <<P0, P0>>, <<P1, P0, P1>>, <<P0, P1, P1, P0>>}
        : Len(ps) <= MaxPoints}
TextPoint == <<"[", "{", Q, "lat", Q, ":", Q, "north", Q, ",", Q, "lng", Q, ":", "5", "}", "]">>
BadGeoTexts == {
    <<"[", "{", Q, "lat", Q, ":", "34.05", ",">>,
    GeoText("'", <<P0>>),
    PointText(Q, "34.05", "-118.249"),
    <<"5">>,
    <<Q, "north", Q>>,
    <<"[", "5", "]">>,
    <<"[", "{", Q, "lat", Q, ":", "34.05", "}", "]">>,
    ListText(<<PointText(Q, "34.05", "-118.249"), <<"{", Q, "lng", Q, ":", "5", "}">>>>) }
GeoParams ==
    {NoGeo} \cup {Geo(GeoText(Q, ps), Len(ps)) : ps \in GeoLists}
            \cup {Geo(TextPoint, 1)} \cup {Geo(t, 0 - 1) : t \in BadGeoTexts}

\* The rows of zones_geocoded_final.csv; an empty cell is the empty text.
ZoneRow(mover, second, votes, geojson) ==
    [Mover |-> mover, Second |-> second, Votes |-> votes, geojson |-> geojson]
VoteText(name, vote) ==
    <<"{", Q, "Member Name", Q, ":", Q, name, Q, ",", Q, "Vote", Q, ":", Q, vote, Q, "}">>
Unfinished == <<"[", "{", "'", "lat", "'", ":", "34.05", ",">>
AllZones == <<
    ZoneRow("JOHN LEE", "BOB BLUMENFIELD",
            ListText(<<VoteText("JOHN LEE", "YES"), VoteText("BOB BLUMENFIELD", "NO")>>),
            GeoText("'", <<P0>>)),
    ZoneRow("JOHN LEE", "BOB BLUMENFIELD",
            ListText(<<VoteText("JOHN LEE", "NO")>>),
            GeoText("'", <<P0, P1>>)),
    ZoneRow("JOHN LEE", "",
            ListText(<<VoteText("BOB BLUMENFIELD", "YES")>>),
            Unfinished),
    ZoneRow("JOHN LEE", "",
            <<"[", "{", Q, "Member Name", Q>>,
            GeoText("'", <<P1>>)),
    ZoneRow("BOB BLUMENFIELD", "JOHN LEE", <<>>, <<>>) >>
ZoneTables == Windows(AllZones, MaxZones)

\* The zone lists that checkZones is called with.
AllZoneTexts == <<
    GeoText("'", <<P0>>), GeoText("'", <<P0, P1>>), GeoText("'", <<P1, P0, P0>>),
    Unfinished, GeoText("'", <<E0>>), GeoText("'", NS), GeoText("'", EW), <<"[", "]">> >>
ZoneLists == Windows(AllZoneTexts, MaxZones)

\* The arguments that the filters are called with.
Point(lat, lng) == [lat |-> lat, lng |-> lng]
PointOf(p) == Point(Numeral[p[1]], Numeral[p[2]])
PathOf(ps) == [i \in DOMAIN ps |-> PointOf(ps[i])]
QueryPoints == {PointOf(P0), PointOf(E0)}
Paths ==
    {PathOf(ps) : ps \in {qs \in {<<P0, P1>>, <<P0, P0>>, EW, <<P1, P0, P0>>, <<P0, P1, E0, P0>>}
                            : Len(qs) <= MaxPoints}}
Radii == {Zero, FromInt(93), FromInt(distance_m)}

\* The arguments that point_to_line_distance is called with: a point (px, py)
\* and a segment (x1, y1, x2, y2).  The third point is the pole, and the
\* fourth segment is shorter than any length the projection can square.
SegmentPoints == {
    <<Fl(-11825000, -5), Fl(34050000, -6)>>,
    <<Fl(50000000, -11), Fl(89932157, -11)>>,
    <<Zero, FromInt(90)>>,
    <<NaN, Fl(34050000, -6)>> }
Segments == {
    <<Fl(-11824900, -5), Fl(34050000, -6), Fl(-11824800, -5), Fl(34050000, -6)>>,
    <<Fl(-11824900, -5), Fl(34050000, -6), Fl(-11824900, -5), Fl(34050000, -6)>>,
    <<Zero, Zero, Fl(10000000, -10), Zero>>,
    <<Zero, Zero, Fl(26000000, -167), Zero>>,
    <<Zero, Zero, Fl(10000000, -177), Zero>> }

Names == {"JOHN LEE", "John Lee", "BOB BLUMENFIELD"}

(***************************************************************************)
(* The state: the files, and the call being served.                        *)
(***************************************************************************)
VARIABLES
    csv_found,   \* whether the csv files under ./static exist
    arrests,     \* the rows of 202024arrests4118.csv
    zone_table,  \* the rows of zones_geocoded_final.csv
    pc,          \* "idle", or "done" once the call has come to its result
    call,        \* the call: the handler or function and its arguments
    ret          \* what the call came to

vars == <<csv_found, arrests, zone_table, pc, call, ret>>

NoCall == [op |-> "", geo |-> NoGeo, name |-> "", lat |-> Zero, lng |-> Zero,
           points |-> <<>>, distance |-> Zero, row |-> <<>>, zones |-> <<>>, args |-> <<>>]

Init ==
    /\ \/ /\ csv_found = TRUE
          /\ arrests \in Datasets
          /\ zone_table \in ZoneTables
       \/ /\ csv_found = FALSE
          /\ arrests = <<>>
          /\ zone_table = <<>>
    /\ pc = "idle"
    /\ call = NoCall
    /\ ret = <<>>

Serve(c, r) ==
    /\ pc = "idle"
    /\ pc' = "done"
    /\ call' = c
    /\ ret' = <<r>>
    /\ UNCHANGED <<csv_found, arrests, zone_table>>

\* GET /arrests
GetArrests ==
    \E geo_param \in GeoParams :
        Serve([NoCall EXCEPT !.op = "get_arrests", !.geo = geo_param],
              get_arrests(geo_param, csv_found, arrests))

\* GET /people/<name>
Councilmember ==
    \E name \in Names :
        Serve([NoCall EXCEPT !.op = "councilmember", !.name = name],
              councilmember(name, csv_found, zone_table, arrests))

\* GET /
Home ==
    Serve([NoCall EXCEPT !.op = "home"], PageResponse("main.html"))

\* The response is sent and the server waits for the next request.
Done ==
    /\ pc = "done"
    /\ pc' = "idle"
    /\ call' = NoCall
    /\ ret' = <<>>
    /\ UNCHANGED <<csv_found, arrests, zone_table>>

Next == GetArrests \/ Councilmember \/ Home \/ Done

Spec == Init /\ [][Next]_vars

(***************************************************************************)
(* The functions under the handlers, called one at a time on a table of    *)
(* rows.                                                                   *)
(***************************************************************************)
CoreInit ==
    /\ csv_found = TRUE
    /\ arrests \in CoreDatasets
    /\ zone_table = <<>>
    /\ pc = "idle"
    /\ call = NoCall
    /\ ret = <<>>

CallFilterByPoint ==
    \E p \in QueryPoints, r \in Radii :
        Serve([NoCall EXCEPT !.op = "filter_by_point", !.lat = p.lat, !.lng = p.lng,
                             !.distance = r],
              filter_by_point(arrests, p.lat, p.lng, r))

CallFilterByLinestring ==
    \E points \in Paths, r \in Radii :
        Serve([NoCall EXCEPT !.op = "filter_by_linestring", !.points = points,
                             !.distance = r],
              filter_by_linestring(arrests, points, r))

CallCheckZones ==
    \E i \in DOMAIN arrests, zones \in ZoneLists :
        Serve([NoCall EXCEPT !.op = "checkZones", !.row = arrests[i], !.zones = zones],
              checkZones(arrests[i], zones))

CallPointToLine ==
    \E p \in SegmentPoints, s \in Segments :
        Serve([NoCall EXCEPT !.op = "point_to_line_distance", !.args = p \o s],
              point_to_line_distance(p[1], p[2], s[1], s[2], s[3], s[4]))

CoreNext ==
    CallFilterByPoint \/ CallFilterByLinestring \/ CallCheckZones \/ CallPointToLine \/ Done

CoreSpec == CoreInit /\ [][CoreNext]_vars

(***************************************************************************)
(* The properties.                                                         *)
(***************************************************************************)
\* The call op has come to its result.
Called(op) == pc = "done" /\ call.op = op
Result == ret[1]

\* A record with valid coordinates: both are floats.
Valid(row) == row.LAT.k = "num" /\ row.LON.k = "num"
InRows(row, rows) == \E i \in DOMAIN rows : rows[i] = row

\* A well-formed zone text: a list of points, each with a lat and a lng number.
IsPoints(s) ==
    /\ s.type = "list"
    /\ \A i \in DOMAIN s.items :
          /\ s.items[i].type = "dict"
          /\ HasKey(s.items[i], "lat") /\ Member(s.items[i], "lat").type = "number"
          /\ HasKey(s.items[i], "lng") /\ Member(s.items[i], "lng").type = "number"
Parses(z) == z # <<>> /\ JsonLoads(Replace(z, "'", Q)).exc = ""
WellFormed(z) == Parses(z) /\ IsPoints(JsonLoads(Replace(z, "'", Q)).val)
ZonePoints(z) == PointsOf(JsonLoads(Replace(z, "'", Q)).val)
IsPointZone(z) == WellFormed(z) /\ Len(ZonePoints(z)) = 1
IsPathZone(z) == WellFormed(z) /\ Len(ZonePoints(z)) >= 2

\* The great-circle distance from a record to a point.
RecordToPoint(row, p) == haversine_distance(row.LAT, row.LON, p.lat, p.lng)

\* The point-to-segment distance with the record as the query point: px and py
\* are the record's longitude and latitude, the x's longitudes, the y's
\* latitudes.
RecordToSegment(row, p1, p2) ==
    point_to_line_distance(row.LON, row.LAT, p1.lng, p1.lat, p2.lng, p2.lat)

\* The minimum of the point-to-segment distances over the consecutive segments
\* of a path of at least two points.
Least(ds) == CHOOSE d \in ds : \A o \in ds : ~FLt(o, d)
MinimumDistance(row, points) ==
    Least({RecordToSegment(row, points[i], points[i + 1]) : i \in 1..(Len(points) - 1)})

\* withinRadius(record, zone, 100) for the points of a zone.
WithinZone(row, points) ==
    /\ Valid(row)
    /\ \/ Len(points) = 1 /\ FLe(RecordToPoint(row, points[1]), FromInt(100))
       \/ Len(points) >= 2 /\ FLt(MinimumDistance(row, points), FromInt(100))

\* The rows that a sequence of row numbers picks, in that order.
Picked(out, rows, f) ==
    /\ \A a, b \in DOMAIN f : a < b => f[a] < f[b]
    /\ \A a \in DOMAIN out : out[a] = rows[f[a]]
\* out is made of exactly the rows numbered in S, each once, in their order.
IsSubsequence(out, rows, S) ==
    /\ Len(out) = Cardinality(S)
    /\ \E f \in [DOMAIN out -> S] : Picked(out, rows, f)

\* C1, as the claim states it: path-mode matching is exclusive at the boundary.
\* A record with valid coordinates whose minimum point-to-segment distance over
\* the segments of the path equals the radius does not match, in
\* filter_by_linestring and in the path branch of checkZones alike.
C1_PathExclusive ==
    /\ Called("filter_by_linestring") /\ Result.exc = "" =>
          \A i \in DOMAIN arrests :
              Valid(arrests[i])
              /\ FEq(MinimumDistance(arrests[i], call.points), call.distance)
              => ~InRows(arrests[i], Result.val)
    /\ Called("checkZones") /\ Valid(call.row) /\ Len(call.zones) = 1
          /\ IsPathZone(call.zones[1]) /\ Result.exc = ""
          /\ FEq(MinimumDistance(call.row, ZonePoints(call.zones[1])), FromInt(100))
          => Result.val = FALSE

\* The distances that checkZones computes for the segments of the zone z.
ZoneDistances(row, z) ==
    {zone_dist_at(row, JsonLoads(Replace(z, "'", Q)).val, i) :
        i \in 1..(Len(ZonePoints(z)) - 1)}

\* C1, amended: the bulk path filter is inclusive at the boundary and the path
\* branch of checkZones is exclusive.  filter_by_linestring keeps a record with
\* valid coordinates exactly when its minimum point-to-segment distance is at
\* most the radius, so a record exactly at the radius matches; checkZones
\* matches a record to a path zone exactly when one of the segment distances
\* it computes for that zone is strictly less than 100.
C1_PathBoundary ==
    /\ Called("filter_by_linestring") /\ Result.exc = "" =>
          \A i \in DOMAIN arrests :
              Valid(arrests[i]) =>
                  (InRows(arrests[i], Result.val)
                      <=> FLe(MinimumDistance(arrests[i], call.points), call.distance))
    /\ Called("checkZones") /\ Valid(call.row) /\ Len(call.zones) = 1
          /\ IsPathZone(call.zones[1]) /\ Result.exc = ""
          => (Result.val <=> \E d \in ZoneDistances(call.row, call.zones[1]) :
                                  FLt(d, FromInt(100)))

\* C1's case: a record whose minimum distance to the path is exactly the
\* radius, which is not zero, is among the rows filter_by_linestring returns.
C1_AtRadius ==
    /\ Called("filter_by_linestring") /\ Result.exc = ""
    /\ ~FEq(call.distance, Zero)
    /\ \E i \in DOMAIN arrests :
          /\ Valid(arrests[i])
          /\ FEq(MinimumDistance(arrests[i], call.points), call.distance)
          /\ InRows(arrests[i], Result.val)

\* C2: a record whose coordinates are missing or non-numeric fails every
\* proximity predicate and raises nothing.  Both filters complete and return
\* no such record, and checkZones is false for such a record whatever the
\* well-formed zones are.
C2_InvalidExcluded ==
    /\ Called("filter_by_point") \/ Called("filter_by_linestring") =>
          /\ Result.exc = ""
          /\ \A i \in DOMAIN arrests : ~Valid(arrests[i]) => ~InRows(arrests[i], Result.val)
    /\ Called("checkZones") /\ ~Valid(call.row)
          /\ (\A k \in DOMAIN call.zones : WellFormed(call.zones[k]))
          => Result = Returns(FALSE)

\* The zones of the councilmember call: the geojson of the rows he moved.
MoverZones == geojson_of(Where(zone_table, [i \in DOMAIN zone_table |-> zone_table[i].Mover = call.name]))
Page == Result.page[1]

\* C3: zone aggregation agrees with the proximity predicate at radius 100.
\* Over well-formed zones the count of the report is the number of records
\* for which withinRadius(record, z, 100) holds of at least one zone z.
C3_CountAgrees ==
    Called("councilmember") /\ Result.page # <<>>
    /\ (\A k \in DOMAIN MoverZones : WellFormed(MoverZones[k]))
    => Page.arrests =
          Cardinality({i \in DOMAIN arrests :
                          \E k \in DOMAIN MoverZones :
                              WithinZone(arrests[i], ZonePoints(MoverZones[k]))})

\* The zone table without the rows of the call's mover whose geometry fails
\* to parse, and the report over it.
ParsingZones == Where(zone_table, [i \in DOMAIN zone_table |-> zone_table[i].Mover # call.name \/ Parses(zone_table[i].geojson)])
ParsingReport == councilmember(call.name, csv_found, ParsingZones, arrests)

\* C4: a zone geometry that fails to parse is skipped silently.  The report is
\* made, with the count that the zone list without the malformed entries would
\* give.
C4_MalformedSkipped ==
    Called("councilmember") /\ ParsingReport.page # <<>>
    => /\ Result.page # <<>>
       /\ Page.arrests = ParsingReport.page[1].arrests

\* The predicate of the bulk filter that was called, for one row.
Matches(row) ==
    IF call.op = "filter_by_point"
    THEN is_within_distance(row, call.lat, call.lng, call.distance)
    ELSE is_within_linestring(row, call.points, call.distance)

\* What a bulk filter returned: the rows of the input for which the predicate
\* is true, each once and in their order; nothing of zero records.
ExactlyMatching ==
    Called("filter_by_point") \/ Called("filter_by_linestring") =>
        /\ Result.exc = "" =>
              IsSubsequence(Result.val, arrests,
                            {i \in DOMAIN arrests : Matches(arrests[i]).val})
        /\ arrests = <<>> => Result = Returns(<<>>)

\* A step in which a bulk filter runs.
FilterStep ==
    pc = "idle" /\ pc' = "done" /\ call'.op \in {"filter_by_point", "filter_by_linestring"}

\* C5: the bulk filter returns exactly the input records for which the
\* proximity predicate is true, in their original order, none duplicated and
\* none added; it leaves the input collection as it was; and zero records
\* give an empty result and no error.
C5_Subsequence == []ExactlyMatching /\ [][FilterStep => arrests' = arrests]_vars

\* C5's case: a filter kept at least two records and dropped at least one.
C5_SomeKept ==
    /\ Called("filter_by_point") \/ Called("filter_by_linestring")
    /\ Result.exc = ""
    /\ Len(Result.val) >= 2
    /\ Len(Result.val) < Len(arrests)

\* C6: the decoding of the geo parameter has one outcome per request, the csv
\* file being read.  No parameter: every record, unfiltered.  A list of one
\* point: filter_by_point.  A list of two or more points:
\* filter_by_linestring.  Anything else: status 400 and neither filter.
C6_OneOutcome ==
    Called("get_arrests") /\ csv_found =>
        /\ ~call.geo.given =>
              /\ Result.status = 200 /\ Result.via = ""
              /\ Len(Result.rows) = Len(arrests)
              /\ \A i \in DOMAIN arrests : Result.rows[i].idx = arrests[i].idx
        /\ call.geo.given /\ call.geo.count = 1 =>
              Result.via = "filter_by_point" /\ Result.status # 400
        /\ call.geo.given /\ call.geo.count >= 2 =>
              Result.via = "filter_by_linestring" /\ Result.status # 400
        /\ call.geo.given /\ call.geo.count <= 0 =>
              Result.status = 400 /\ Result.via = "" /\ Result.rows = <<>>

\* C6's case: a list of one point was served by filter_by_point, which found
\* a record.
C6_PointMode ==
    /\ Called("get_arrests") /\ call.geo.given /\ call.geo.count = 1
    /\ Result.via = "filter_by_point" /\ Result.status = 200
    /\ Len(Result.rows) >= 1

\* C7: point-mode matching is inclusive at the boundary.  For a radius of at
\* least zero, filter_by_point keeps a record with valid coordinates exactly
\* when its great-circle distance to the point is at most the radius, and
\* the one-point branch of checkZones does so with the radius 100.
C7_PointInclusive ==
    /\ Called("filter_by_point") /\ Result.exc = "" =>
          \A i \in DOMAIN arrests :
              Valid(arrests[i]) =>
                  (InRows(arrests[i], Result.val)
                      <=> FLe(RecordToPoint(arrests[i], Point(call.lat, call.lng)),
                              call.distance))
    /\ Called("checkZones") /\ Valid(call.row) /\ Len(call.zones) = 1
          /\ IsPointZone(call.zones[1])
          => Result = Returns(FLe(RecordToPoint(call.row, ZonePoints(call.zones[1])[1]),
                                  FromInt(100)))

\* C7's case: a record exactly the radius away from the point, the radius not
\* being zero, is among the rows filter_by_point returns.
C7_AtRadius ==
    /\ Called("filter_by_point") /\ Result.exc = ""
    /\ ~FEq(call.distance, Zero)
    /\ \E i \in DOMAIN arrests :
          /\ Valid(arrests[i])
          /\ FEq(RecordToPoint(arrests[i], Point(call.lat, call.lng)), call.distance)
          /\ InRows(arrests[i], Result.val)

\* The arguments of the call of point_to_line_distance.
Finite(args) == \A i \in DOMAIN args : args[i].k = "num"
ZeroLength(args) == FEq(haversine_distance(args[4], args[3], args[6], args[5]), Zero)

\* C8: a segment of zero length under the distance kernel gives exactly the
\* distance from the point to its endpoint, and for every other segment the
\* divisor dx * dx + dy * dy of the projection is not zero.
C8_DivisorNonZero ==
    Called("point_to_line_distance") /\ Finite(call.args) =>
        /\ ZeroLength(call.args) =>
              ret[1] = haversine_distance(call.args[2], call.args[1],
                                          call.args[4], call.args[3])
        /\ ~ZeroLength(call.args) =>
              /\ ~FEq(divisor(seg_dx(call.args[2], call.args[3], call.args[5]),
                              seg_dy(call.args[4], call.args[6])), Zero)
              /\ ret[1].k = "num"

\* C9: in every segment-distance computation the record is the query point
\* and the coordinates keep their roles.  What filter_by_linestring and the
\* path branch of checkZones decide is decided by the point-to-segment
\* distances from the record's (lat, lon), the limit being the radius in the
\* one and 100 in the other.
C9_RolesKept ==
    /\ Called("filter_by_linestring") /\ Result.exc = "" =>
          \A i \in DOMAIN arrests :
              Valid(arrests[i]) /\ InRows(arrests[i], Result.val)
              => \E k \in 1..(Len(call.points) - 1) :
                    FLe(RecordToSegment(arrests[i], call.points[k], call.points[k + 1]),
                        call.distance)
    /\ Called("checkZones") /\ Valid(call.row) /\ Len(call.zones) = 1
          /\ IsPathZone(call.zones[1]) /\ Result.exc = ""
          => (Result.val <=>
                \E k \in 1..(Len(ZonePoints(call.zones[1])) - 1) :
                    FLt(RecordToSegment(call.row, ZonePoints(call.zones[1])[k],
                                        ZonePoints(call.zones[1])[k + 1]),
                        FromInt(100)))

\* C10: the report is made for every name of the roster, whatever the zone
\* table holds, the member's votes being none included.  It is stated here of
\* the tables whose geometry parses and whose records have valid coordinates.
C10_ReportMade ==
    Called("councilmember") /\ csv_found
    /\ (\E i \in DOMAIN members : Upper[members[i].Name] = call.name)
    /\ (\A k \in DOMAIN MoverZones : WellFormed(MoverZones[k]))
    /\ (\A i \in DOMAIN arrests : Valid(arrests[i]) \/ IsNA(arrests[i].LAT) \/ IsNA(arrests[i].LON))
    => Result.status = 200 /\ Result.page # <<>>
====
